---------------------------- MODULE Spec2Model ----------------------------
(***************************************************************************)
(* Cost and latency calculators of "Long Context Surely Killed RAG".       *)
(*                                                                         *)
(* Units.  Python floats are modelled by exact rational arithmetic over    *)
(* integers with a fixed unit:                                             *)
(*   - a rate is in hundredths of a dollar per million tokens              *)
(*     (3.75 $/M  ->  375), so that  (tokens / 1e6) * rate  is the integer *)
(*     tokens * rate  in units of 1e-8 dollar;                             *)
(*   - a cost is a natural number of 1e-8 dollar, kept as an unbounded     *)
(*     natural (little-endian limbs, see BigOf);                           *)
(*   - a latency is a number of ticks, TicksPerSecond ticks to the second, *)
(*     chosen so that every tokens / throughput quotient is an integer.    *)
(***************************************************************************)
EXTENDS Integers, Sequences, FiniteSets, TLC

VARIABLES
    pricing,   \* the global PricingCatalog (pricing.py:149)
    params,    \* the AppParams the calculators are given
    results,   \* per calculator: what its last calculate(params) returned or raised
    lookup     \* the last direct call on the catalog and its outcome

vars == <<pricing, params, results, lookup>>

----------------------------------------------------------------------------
(* Optional values: None is the empty tuple, a present value a 1-tuple.    *)

None == << >>
Some(x) == <<x>>
\* Python truthiness of an Optional[str]: None and "" are falsy.
Truthy(x) == x # None /\ x[1] # ""

SetMin(S) == CHOOSE x \in S : \A y \in S : x <= y
Max(a, b) == IF a >= b THEN a ELSE b

----------------------------------------------------------------------------
(* Unbounded naturals: little-endian limbs in base 10^4, no leading zero   *)
(* limb, so that equal numbers are equal tuples.                           *)

Base == 10^4

RECURSIVE BigOf(_)
BigOf(n) == IF n = 0 THEN << >> ELSE <<n % Base>> \o BigOf(n \div Base)

RECURSIVE BigAddC(_, _, _)
BigAddC(a, b, c) ==
    IF a = << >> /\ b = << >>
    THEN BigOf(c)
    ELSE LET x == IF a = << >> THEN 0 ELSE Head(a)
             y == IF b = << >> THEN 0 ELSE Head(b)
             s == x + y + c
         IN <<s % Base>> \o BigAddC(IF a = << >> THEN a ELSE Tail(a),
                                    IF b = << >> THEN b ELSE Tail(b),
                                    s \div Base)

BigAdd(a, b) == BigAddC(a, b, 0)

RECURSIVE BigScaleC(_, _, _)
BigScaleC(a, k, c) ==
    IF a = << >>
    THEN BigOf(c)
    ELSE LET s == Head(a) * k + c
         IN <<s % Base>> \o BigScaleC(Tail(a), k, s \div Base)

\* a * k for a limb-sized k
BigScale(a, k) == IF k = 0 THEN << >> ELSE BigScaleC(a, k, 0)

BigShift(a) == IF a = << >> THEN a ELSE <<0>> \o a

RECURSIVE BigMul(_, _)
BigMul(a, b) ==
    IF b = << >>
    THEN << >>
    ELSE BigAdd(BigScale(a, Head(b)), BigShift(BigMul(a, Tail(b))))

\* a * n for a natural number n
BigTimes(a, n) == BigMul(a, BigOf(n))

RECURSIVE BigSum(_)
BigSum(seq) == IF seq = << >> THEN << >> ELSE BigAdd(Head(seq), BigSum(Tail(seq)))

RECURSIVE SeqSum(_)
SeqSum(seq) == IF seq = << >> THEN 0 ELSE Head(seq) + SeqSum(Tail(seq))

----------------------------------------------------------------------------
(* models/pricing.py                                                       *)

TierPricing(up_to, inp, outp, cw, cr, cs) ==
    [up_to_tokens |-> up_to,
     input_per_million |-> inp,
     output_per_million |-> outp,
     cache_write_per_million |-> cw,
     cache_read_per_million |-> cr,
     cache_storage_per_million_hour |-> cs]

DEFAULT_PLAN_KEY == "claude-3.5-sonnet-1m"

PRICING_PLANS ==
    (DEFAULT_PLAN_KEY :>
        [key |-> DEFAULT_PLAN_KEY,
         label |-> "Anthropic Claude Sonnet",
         context_window |-> 1000000,
         tiers |-> << TierPricing(Some(200000), 300, 1500, 375, 30, 0),
                      TierPricing(None, 600, 2250, 750, 60, 0) >>])
    @@
    ("gemini-2.5-flash" :>
        [key |-> "gemini-2.5-flash",
         label |-> "Google Gemini 2.5 Flash",
         context_window |-> 1000000,
         tiers |-> << TierPricing(None, 30, 250, 30, 3, 100) >>])

PriceKinds == {"input", "output", "cache_write", "cache_read", "cache_storage_per_hour"}

\* The field of a tier that each of the five price methods reads.
TierField(tier, kind) ==
    CASE kind = "input" -> tier.input_per_million
      [] kind = "output" -> tier.output_per_million
      [] kind = "cache_write" -> tier.cache_write_per_million
      [] kind = "cache_read" -> tier.cache_read_per_million
      [] kind = "cache_storage_per_hour" -> tier.cache_storage_per_million_hour

\* The scan with a strict comparison: the tier of N = bound would be the next one.
TierForTokensStrict(plan, tokens) ==
    LET hit == {i \in 1..Len(plan.tiers) :
                   \/ plan.tiers[i].up_to_tokens = None
                   \/ tokens < plan.tiers[i].up_to_tokens[1]}
    IN IF hit = {} THEN plan.tiers[Len(plan.tiers)] ELSE plan.tiers[SetMin(hit)]

\* PricingPlan._tier_for_tokens: the first tier, in order, that is unbounded
\* or whose bound is >= tokens; the last tier when the scan finds none.
TierForTokens(plan, tokens) ==
    LET hit == {i \in 1..Len(plan.tiers) :
                   \/ plan.tiers[i].up_to_tokens = None
                   \/ tokens <= plan.tiers[i].up_to_tokens[1]}
    IN IF hit = {} THEN plan.tiers[Len(plan.tiers)] ELSE plan.tiers[SetMin(hit)]

\* PricingPlan.input_price .. cache_storage_price_per_hour
PlanPrice(plan, kind, tokens) == TierField(TierForTokens(plan, tokens), kind)

Ok(v) == [ok |-> TRUE, value |-> v]
Raise(e) == [ok |-> FALSE, error |-> e]

\* The mutant of C15: the catalog remembers the plan of the last get_plan call
\* and falls back to it, instead of the default key, when no key is given.
GetPlanRemembered(cat, plan_key) ==
    LET fallback == IF /\ lookup.op = "get_plan"
                       /\ Truthy(lookup.plan_key)
                       /\ lookup.plan_key[1] \in DOMAIN cat.plans
                    THEN lookup.plan_key[1]
                    ELSE cat.default_key
        key == IF Truthy(plan_key) THEN plan_key[1] ELSE fallback
    IN IF key \in DOMAIN cat.plans THEN Ok(cat.plans[key]) ELSE Raise("KeyError")

\* PricingCatalog.get_plan: `plan_key or default`, then the mapping's lookup.
GetPlan(cat, plan_key) ==
    LET key == IF Truthy(plan_key) THEN plan_key[1] ELSE cat.default_key
    IN IF key \in DOMAIN cat.plans THEN Ok(cat.plans[key]) ELSE Raise("KeyError")

\* PricingCatalog.input_price .. cache_storage_price_per_hour
CatalogPrice(cat, kind, tokens, plan_key) ==
    LET got == GetPlan(cat, plan_key)
    IN IF got.ok THEN Ok(PlanPrice(got.value, kind, tokens)) ELSE got

\* The mutant of C17: the constructor stores the default key without looking
\* it up in the plans.
PricingCatalogUnvalidated(plans, default_key) ==
    Ok([plans |-> plans, default_key |-> default_key])

\* PricingCatalog.__init__ applied to PRICING_PLANS and DEFAULT_PLAN_KEY.
PricingCatalog(plans, default_key) ==
    IF default_key \in DOMAIN plans
    THEN Ok([plans |-> plans, default_key |-> default_key])
    ELSE Raise("ValueError")

----------------------------------------------------------------------------
(* utils/latency.py.  Times of the source are in seconds; the constants    *)
(* below are the same values in milliseconds, the cache factor in percent. *)

BASE_NET_OVERHEAD == 150
TTFT_100 == 1900
TTFT_1K == 2400
TTFT_10K == 2000
TTFT_100K == 4300
CACHE_SPEEDUP_FACTOR == 25

\* 279000 is a multiple of every throughput band (150, 120, 90, 62) and of 1000.
TicksPerSecond == 279 * 1000
TicksPerMs == TicksPerSecond \div 1000

\* The mutant of C25: the cache speed-up is not applied.
PrefillTimeWithoutSpeedup(prompt_tokens, uses_cache) ==
    LET base_ttft == IF prompt_tokens <= 100 THEN TTFT_100
                     ELSE IF prompt_tokens <= 1000 THEN TTFT_1K
                     ELSE IF prompt_tokens <= 10000 THEN TTFT_10K
                     ELSE TTFT_100K
    IN (BASE_NET_OVERHEAD + base_ttft) * TicksPerMs

\* The mutant of C20: the band bounds are exclusive.
PrefillTimeExclusiveBounds(prompt_tokens, uses_cache) ==
    LET scale_factor == IF uses_cache THEN CACHE_SPEEDUP_FACTOR ELSE 100
        base_ttft == IF prompt_tokens < 100 THEN TTFT_100
                     ELSE IF prompt_tokens < 1000 THEN TTFT_1K
                     ELSE IF prompt_tokens < 10000 THEN TTFT_10K
                     ELSE TTFT_100K
    IN ((BASE_NET_OVERHEAD * 100 + scale_factor * base_ttft) * TicksPerMs) \div 100

\* _prefill_time, in ticks
PrefillTime(prompt_tokens, uses_cache) ==
    LET scale_factor == IF uses_cache THEN CACHE_SPEEDUP_FACTOR ELSE 100
        base_ttft == IF prompt_tokens <= 100 THEN TTFT_100
                     ELSE IF prompt_tokens <= 1000 THEN TTFT_1K
                     ELSE IF prompt_tokens <= 10000 THEN TTFT_10K
                     ELSE TTFT_100K
    IN ((BASE_NET_OVERHEAD * 100 + scale_factor * base_ttft) * TicksPerMs) \div 100

\* The mutant of C21: the band bounds are exclusive.
StreamingThroughputExclusiveBounds(prompt_tokens) ==
    IF prompt_tokens < 1000 THEN 150
    ELSE IF prompt_tokens < 10000 THEN 120
    ELSE IF prompt_tokens < 50000 THEN 90
    ELSE 62

\* _streaming_throughput, in tokens per second
StreamingThroughput(prompt_tokens) ==
    IF prompt_tokens <= 1000 THEN 150
    ELSE IF prompt_tokens <= 10000 THEN 120
    ELSE IF prompt_tokens <= 50000 THEN 90
    ELSE 62

\* estimate_latency: ttft, decode and total in ticks
EstimateLatency(prompt_tokens, completion_tokens, uses_cache) ==
    LET ttft == PrefillTime(prompt_tokens, uses_cache)
        throughput == StreamingThroughput(prompt_tokens)
        decode_time == IF completion_tokens # 0
                       THEN (completion_tokens * TicksPerSecond) \div throughput
                       ELSE 0
    IN [ttft |-> ttft,
        decode |-> decode_time,
        total |-> ttft + decode_time,
        throughput |-> throughput]

\* The RAG constants: EMBEDDING_THROUGHPUT in tokens per second, the retrieval
\* base and the rerank calibration times in milliseconds, the retrieval
\* scaling factor (0.00002 s per 100 top_k) in microseconds.
EMBEDDING_THROUGHPUT == 1500
RETRIEVAL_BASE_LATENCY == 10
RETRIEVAL_SCALING_FACTOR == 20
RERANK_24_DOCS_TIME == 150
RERANK_96_DOCS_TIME == 280

\* The RAG times are counted in fine ticks, 10^4 to the tick of
\* EstimateLatency (2,790,000 per millisecond): one embedded token, one top_k
\* of retrieval and one document of the rerank interpolation are each a whole
\* number of them.
FineTicksPerTick == 10^4
FineTicksPerMs == TicksPerMs * FineTicksPerTick

\* A quotient of a time by a count, kept exact
Rat(num, den) == [num |-> num, den |-> den]
RatAdd(r, b) == Rat(BigAdd(r.num, BigTimes(b, r.den)), r.den)
RatEq(r, s) == BigTimes(r.num, s.den) = BigTimes(s.num, r.den)

\* estimate_embedding_latency, in fine ticks: corpus_tokens / EMBEDDING_THROUGHPUT
\* seconds, a second being 1000 * FineTicksPerMs fine ticks (the quotient is
\* taken with both sides of the division reduced by 100)
EstimateEmbeddingLatency(corpus_tokens) ==
    BigTimes(BigOf(corpus_tokens),
             (10 * FineTicksPerMs) \div (EMBEDDING_THROUGHPUT \div 100))

\* estimate_retrieval_latency, in fine ticks
EstimateRetrievalLatency(top_k) ==
    RETRIEVAL_BASE_LATENCY * FineTicksPerMs
        + (top_k * RETRIEVAL_SCALING_FACTOR * (FineTicksPerMs \div 1000)) \div 100

\* The mutant of C19: the interpolation runs over the 96 documents of the
\* upper calibration point instead of the 72 between the two points.
EstimateRerankingLatencyOver96(doc_count) ==
    IF doc_count <= 24 THEN RERANK_24_DOCS_TIME * FineTicksPerMs
    ELSE IF doc_count >= 96 THEN RERANK_96_DOCS_TIME * FineTicksPerMs
    ELSE RERANK_24_DOCS_TIME * FineTicksPerMs
           + (doc_count - 24)
               * (((RERANK_96_DOCS_TIME - RERANK_24_DOCS_TIME) * FineTicksPerMs) \div 96)

\* estimate_reranking_latency, in fine ticks; the slope per document,
\* (RERANK_96_DOCS_TIME - RERANK_24_DOCS_TIME) / (96 - 24), is a whole number
\* of fine ticks
EstimateRerankingLatency(doc_count) ==
    IF doc_count <= 24 THEN RERANK_24_DOCS_TIME * FineTicksPerMs
    ELSE IF doc_count >= 96 THEN RERANK_96_DOCS_TIME * FineTicksPerMs
    ELSE RERANK_24_DOCS_TIME * FineTicksPerMs
           + (doc_count - 24)
               * (((RERANK_96_DOCS_TIME - RERANK_24_DOCS_TIME) * FineTicksPerMs)
                    \div (96 - 24))

\* The mutant of C12: the amortized indexing time divides without the guard
\* on monthly_requests.
AmortizedIndexingTimeUnguarded(total_indexing_time_monthly, monthly_requests) ==
    Rat(total_indexing_time_monthly, monthly_requests)

\* amortized_indexing_time of estimate_rag_latency
AmortizedIndexingTime(total_indexing_time_monthly, monthly_requests) ==
    IF monthly_requests # 0
    THEN Rat(total_indexing_time_monthly, monthly_requests)
    ELSE Rat(BigOf(0), 1)

\* estimate_rag_latency: every time in fine ticks, the two that hold the
\* amortized indexing time as quotients
EstimateRagLatency(corpus_tokens, top_k, prompt_tokens, completion_tokens, monthly_requests, updates_per_month, rerank_top_k, uses_cache) ==
    LET indexing_time_per_update == EstimateEmbeddingLatency(corpus_tokens)
        total_indexing_time_monthly ==
            BigTimes(indexing_time_per_update, updates_per_month)
        amortized_indexing_time ==
            AmortizedIndexingTime(total_indexing_time_monthly, monthly_requests)
        retrieval_time == BigOf(EstimateRetrievalLatency(top_k))
        rerank_docs == IF rerank_top_k # None THEN rerank_top_k[1] ELSE top_k
        reranking_time == BigOf(EstimateRerankingLatency(rerank_docs))
        llm_latency == EstimateLatency(prompt_tokens, completion_tokens, uses_cache)
        llm_total == BigTimes(BigOf(llm_latency.total), FineTicksPerTick)
    IN [indexing_per_update |-> indexing_time_per_update,
        indexing_total_monthly |-> total_indexing_time_monthly,
        indexing_total |-> total_indexing_time_monthly,
        indexing_amortized |-> amortized_indexing_time,
        retrieval |-> retrieval_time,
        reranking |-> reranking_time,
        llm_ttft |-> BigTimes(BigOf(llm_latency.ttft), FineTicksPerTick),
        llm_decode |-> BigTimes(BigOf(llm_latency.decode), FineTicksPerTick),
        llm_total |-> llm_total,
        e2e_without_indexing |-> BigAdd(BigAdd(retrieval_time, reranking_time), llm_total),
        total |-> RatAdd(RatAdd(RatAdd(amortized_indexing_time, retrieval_time),
                                reranking_time),
                         llm_total),
        throughput |-> llm_latency.throughput]

----------------------------------------------------------------------------
(* Strings built by str() and by the "," format, as tuples of characters.  *)

DigitChars == <<"0", "1", "2", "3", "4", "5", "6", "7", "8", "9">>

RECURSIVE Digits(_)
Digits(n) ==
    IF n < 10 THEN <<DigitChars[n + 1]>>
    ELSE Digits(n \div 10) \o <<DigitChars[(n % 10) + 1]>>

\* str(n) of an int
Str(n) == IF n < 0 THEN <<"-">> \o Digits(0 - n) ELSE Digits(n)

\* f"{n:,}" of a natural number
RECURSIVE FormatThousands(_)
FormatThousands(n) ==
    IF n < 1000 THEN Digits(n)
    ELSE LET r == n % 1000
         IN FormatThousands(n \div 1000)
            \o <<",", DigitChars[(r \div 100) + 1],
                      DigitChars[((r \div 10) % 10) + 1],
                      DigitChars[(r % 10) + 1]>>

\* sep.join(parts)
RECURSIVE Join(_, _)
Join(sep, parts) ==
    IF parts = << >> THEN << >>
    ELSE IF Len(parts) = 1 THEN parts[1]
    ELSE parts[1] \o <<sep>> \o Join(sep, Tail(parts))

----------------------------------------------------------------------------
(* models/parameters.py                                                    *)

KnowledgeBaseParams(pages, tokens_per_page, updates_per_month) ==
    [pages |-> pages,
     tokens_per_page |-> tokens_per_page,
     updates_per_month |-> updates_per_month,
     cache_storage_hours_per_month |-> 24 * 30]

\* KnowledgeBaseParams.total_tokens
TotalTokens(kb) == kb.pages * kb.tokens_per_page

QueryParams(query_tokens, output_tokens) ==
    [query_tokens |-> query_tokens, output_tokens |-> output_tokens]

\* RAGParams(top_k=.., vector_db_base_cost=..): the dataclass has these six
\* fields and no other.  embedding_price_per_million is in hundredths of a
\* dollar, rerank_price_per_query in 1e-8 dollar, vector_db_base_cost in dollars.
RAGParams(top_k, vector_db_base_cost) ==
    [top_k |-> top_k,
     tokens_per_chunk |-> 800,
     embedding_price_per_million |-> 12,
     rerank_price_per_query |-> 200000,
     rerank_top_k |-> 20,
     vector_db_base_cost |-> vector_db_base_cost]

GrepParams(avg_tries, avg_docs_retrieved) ==
    [avg_tries |-> avg_tries,
     avg_docs_retrieved |-> avg_docs_retrieved,
     avg_pages_per_document |-> 10]

\* GrepParams.false_file_tokens
FalseFileTokens(grep, tokens_per_page) ==
    grep.avg_docs_retrieved * grep.avg_pages_per_document * tokens_per_page

\* GrepParams.true_file_tokens
TrueFileTokens(grep, tokens_per_page) ==
    grep.avg_pages_per_document * tokens_per_page

PricingParams(plan_key) == [plan_key |-> plan_key]

AppParams(knowledge_base, query, rag, grep, pricing_params, requests_per_day) ==
    [knowledge_base |-> knowledge_base,
     query |-> query,
     rag |-> rag,
     grep |-> grep,
     pricing |-> pricing_params,
     requests_per_day |-> requests_per_day]

\* AppParams.monthly_requests
MonthlyRequests(p) == p.requests_per_day * 30

----------------------------------------------------------------------------
(* calculators/base.py                                                     *)

CalculationResult(scenario_name, monthly_cost, cost_per_request, avg_time_seconds, input_tokens, latency, cost_breakdown, additional_metrics) ==
    [scenario_name |-> scenario_name,
     monthly_cost |-> monthly_cost,
     cost_per_request |-> cost_per_request,
     avg_time_seconds |-> avg_time_seconds,
     input_tokens |-> input_tokens,
     latency |-> latency,
     cost_breakdown |-> cost_breakdown,
     additional_metrics |-> additional_metrics]

\* (tokens / 1_000_000) * rate, in 1e-8 dollar
TokenCost(tokens, rate) == BigTimes(BigOf(tokens), rate)

----------------------------------------------------------------------------
(* calculators/long_context.py                                             *)

\* The output rate chosen by the size of the completion instead of the prompt.
OutputRateByOutputTokens(cat, prompt_tokens, output_tokens, plan_key) ==
    CatalogPrice(cat, "output", output_tokens, plan_key)

\* pricing.output_price(prompt_tokens, plan_key) of both long-context calculators
OutputRate(cat, prompt_tokens, output_tokens, plan_key) ==
    CatalogPrice(cat, "output", prompt_tokens, plan_key)

\* LongContextNoCache.calculate
LongContextNoCacheCalculate(cat, p) ==
    LET prompt_tokens == TotalTokens(p.knowledge_base) + p.query.query_tokens
        plan_key == Some(p.pricing.plan_key)
        input_rate == CatalogPrice(cat, "input", prompt_tokens, plan_key)
        output_rate == OutputRate(cat, prompt_tokens, p.query.output_tokens, plan_key)
    IN IF ~input_rate.ok THEN input_rate
       ELSE IF ~output_rate.ok THEN output_rate
       ELSE
       LET input_cost_per_request == TokenCost(prompt_tokens, input_rate.value)
           output_cost_per_request == TokenCost(p.query.output_tokens, output_rate.value)
           cost_per_request == BigAdd(input_cost_per_request, output_cost_per_request)
           monthly_cost == BigTimes(cost_per_request, MonthlyRequests(p))
           latency == EstimateLatency(prompt_tokens, p.query.output_tokens, FALSE)
       IN Ok(CalculationResult(
                "Long Context (No Cache)",
                monthly_cost,
                cost_per_request,
                latency.total,
                prompt_tokens,
                latency,
                [input |-> input_cost_per_request,
                 output |-> output_cost_per_request],
                [kb_size_pages |-> Str(p.knowledge_base.pages),
                 kb_size_tokens |-> Str(TotalTokens(p.knowledge_base)),
                 monthly_requests |-> Str(MonthlyRequests(p))]))

\* The monthly cost without the cache storage charge.
WithCacheMonthlyCostNoStorage(cache_write_cost, cache_storage_cost, cost_per_request, monthly_requests) ==
    BigAdd(cache_write_cost, BigTimes(cost_per_request, monthly_requests))

\* long_context.py:77
WithCacheMonthlyCost(cache_write_cost, cache_storage_cost, cost_per_request, monthly_requests) ==
    BigAdd(BigAdd(cache_write_cost, cache_storage_cost),
           BigTimes(cost_per_request, monthly_requests))

\* The mutant of C13: 15% of the knowledge base is rounded up instead of
\* truncated.
CachedTtftTokensRoundedUp(p) ==
    ((TotalTokens(p.knowledge_base) * 15 + 99) \div 100) + p.query.query_tokens

\* int(total_tokens * 0.15) + query_tokens
CachedTtftTokens(p) ==
    ((TotalTokens(p.knowledge_base) * 15) \div 100) + p.query.query_tokens

\* The mutant of C23: the cache rates are looked up by the whole prompt, as
\* the query-input and output rates are.
CacheRateByPromptTokens(cat, kind, total_tokens, prompt_tokens, plan_key) ==
    CatalogPrice(cat, kind, prompt_tokens, plan_key)

\* The cache-write, cache-storage and cache-read rates of the With-Cache
\* calculator: the lookup is by the knowledge base's tokens alone.
CacheRate(cat, kind, total_tokens, prompt_tokens, plan_key) ==
    CatalogPrice(cat, kind, total_tokens, plan_key)

\* LongContextWithCache.calculate
LongContextWithCacheCalculate(cat, p) ==
    LET total_tokens == TotalTokens(p.knowledge_base)
        prompt_tokens == total_tokens + p.query.query_tokens
        plan_key == Some(p.pricing.plan_key)
        cache_write_rate == CacheRate(cat, "cache_write", total_tokens, prompt_tokens, plan_key)
        cache_storage_rate ==
            CacheRate(cat, "cache_storage_per_hour", total_tokens, prompt_tokens, plan_key)
        cache_read_rate == CacheRate(cat, "cache_read", total_tokens, prompt_tokens, plan_key)
        input_rate == CatalogPrice(cat, "input", prompt_tokens, plan_key)
        output_rate == OutputRate(cat, prompt_tokens, p.query.output_tokens, plan_key)
    IN IF ~cache_write_rate.ok THEN cache_write_rate
       ELSE IF ~cache_storage_rate.ok THEN cache_storage_rate
       ELSE IF ~cache_read_rate.ok THEN cache_read_rate
       ELSE IF ~input_rate.ok THEN input_rate
       ELSE IF ~output_rate.ok THEN output_rate
       ELSE
       LET cache_write_cost ==
               BigTimes(TokenCost(total_tokens, cache_write_rate.value),
                        p.knowledge_base.updates_per_month)
           cache_storage_cost ==
               BigTimes(TokenCost(total_tokens, cache_storage_rate.value),
                        p.knowledge_base.cache_storage_hours_per_month)
           cache_read_cost_per_request == TokenCost(total_tokens, cache_read_rate.value)
           query_input_cost_per_request == TokenCost(p.query.query_tokens, input_rate.value)
           output_cost_per_request == TokenCost(p.query.output_tokens, output_rate.value)
           cost_per_request ==
               BigAdd(BigAdd(cache_read_cost_per_request, query_input_cost_per_request),
                      output_cost_per_request)
           monthly_cost == WithCacheMonthlyCost(cache_write_cost, cache_storage_cost,
                                                cost_per_request, MonthlyRequests(p))
           latency == EstimateLatency(CachedTtftTokens(p), p.query.output_tokens, TRUE)
       IN Ok(CalculationResult(
                "Long Context (Cache)",
                monthly_cost,
                cost_per_request,
                latency.total,
                prompt_tokens,
                latency,
                [cache_write |-> cache_write_cost,
                 cache_storage |-> cache_storage_cost,
                 cache_read |-> cache_read_cost_per_request,
                 query_input |-> query_input_cost_per_request,
                 output |-> output_cost_per_request],
                [kb_size_pages |-> Str(p.knowledge_base.pages),
                 kb_size_tokens |-> Str(total_tokens),
                 monthly_requests |-> Str(MonthlyRequests(p)),
                 cache_writes_per_month |-> Str(p.knowledge_base.updates_per_month),
                 cache_storage_hours_per_month |->
                     Str(p.knowledge_base.cache_storage_hours_per_month)]))

----------------------------------------------------------------------------
(* calculators/grep.py                                                     *)

\* The attempts with one failed attempt too many: failed_attempts = attempts.
GrepFailedAttemptsOffByOne(grep) == Max(1, grep.avg_tries)

\* grep.py:13-14: attempts = max(1, int(avg_tries)); failed_attempts = attempts - 1
GrepFailedAttempts(grep) == Max(1, grep.avg_tries) - 1

\* Every failed attempt carrying one batch of false files only (no accumulation).
GrepPromptTokensFlat(p) ==
    LET failed_attempts == GrepFailedAttempts(p.grep)
        false_tokens == FalseFileTokens(p.grep, p.knowledge_base.tokens_per_page)
        true_tokens == TrueFileTokens(p.grep, p.knowledge_base.tokens_per_page)
    IN [i \in 1..failed_attempts |-> p.query.query_tokens + false_tokens]
       \o <<p.query.query_tokens + failed_attempts * false_tokens + true_tokens>>

\* The mutant of C27: the final attempt carries the true file alone, without
\* the files of the failed attempts.
GrepPromptTokensLastAlone(p) ==
    LET failed_attempts == GrepFailedAttempts(p.grep)
        false_tokens == FalseFileTokens(p.grep, p.knowledge_base.tokens_per_page)
        true_tokens == TrueFileTokens(p.grep, p.knowledge_base.tokens_per_page)
    IN [i \in 1..failed_attempts |-> p.query.query_tokens + i * false_tokens]
       \o <<p.query.query_tokens + true_tokens>>

\* grep.py:18-27: prompt_tokens_per_attempt, the final attempt last
GrepPromptTokens(p) ==
    LET failed_attempts == GrepFailedAttempts(p.grep)
        false_tokens == FalseFileTokens(p.grep, p.knowledge_base.tokens_per_page)
        true_tokens == TrueFileTokens(p.grep, p.knowledge_base.tokens_per_page)
    IN [i \in 1..failed_attempts |-> p.query.query_tokens + i * false_tokens]
       \o <<p.query.query_tokens + failed_attempts * false_tokens + true_tokens>>

\* Every attempt priced from the tier of the final attempt's prompt.
GrepAttemptRateFinalTier(cat, kind, prompts, j, plan_key) ==
    CatalogPrice(cat, kind, prompts[Len(prompts)], plan_key)

\* grep.py:33,36: pricing.input_price(tokens, ..) / output_price(tokens, ..) of attempt j
GrepAttemptRate(cat, kind, prompts, j, plan_key) ==
    CatalogPrice(cat, kind, prompts[j], plan_key)

\* The largest element of a non-empty sequence of numbers
SeqMax(seq) == CHOOSE x \in {seq[j] : j \in DOMAIN seq} : \A j \in DOMAIN seq : seq[j] <= x

\* The mutant of C14: the attempts run in parallel, so the request waits for
\* the slowest ttft and the slowest decode instead of their sums.
GrepLatencyParallel(latencies) ==
    LET n == Len(latencies)
        total_ttft == SeqMax([j \in 1..n |-> latencies[j].ttft])
        total_decode == SeqMax([j \in 1..n |-> latencies[j].decode])
    IN [ttft |-> total_ttft,
        decode |-> total_decode,
        total |-> total_ttft + total_decode,
        throughput |-> latencies[n].throughput]

\* The latency dict of GrepCalculator.calculate, from the attempts' latencies
GrepLatency(latencies) ==
    LET n == Len(latencies)
        total_ttft == SeqSum([j \in 1..n |-> latencies[j].ttft])
        total_decode == SeqSum([j \in 1..n |-> latencies[j].decode])
    IN [ttft |-> total_ttft,
        decode |-> total_decode,
        total |-> total_ttft + total_decode,
        throughput |-> latencies[n].throughput]

\* GrepCalculator.calculate
GrepCalculate(cat, p) ==
    LET failed_attempts == GrepFailedAttempts(p.grep)
        attempts == failed_attempts + 1
        plan_key == Some(p.pricing.plan_key)
        prompts == GrepPromptTokens(p)
        n == Len(prompts)
        total_input_tokens == SeqSum(prompts)
        input_rates == [j \in 1..n |-> GrepAttemptRate(cat, "input", prompts, j, plan_key)]
        output_rates == [j \in 1..n |-> GrepAttemptRate(cat, "output", prompts, j, plan_key)]
    IN IF \E j \in 1..n : ~input_rates[j].ok
       THEN input_rates[SetMin({j \in 1..n : ~input_rates[j].ok})]
       ELSE IF \E j \in 1..n : ~output_rates[j].ok
       THEN output_rates[SetMin({j \in 1..n : ~output_rates[j].ok})]
       ELSE
       LET input_cost_per_request ==
               BigSum([j \in 1..n |-> TokenCost(prompts[j], input_rates[j].value)])
           output_cost_per_request ==
               BigSum([j \in 1..n |-> TokenCost(p.query.output_tokens, output_rates[j].value)])
           cost_per_request == BigAdd(input_cost_per_request, output_cost_per_request)
           monthly_cost == BigTimes(cost_per_request, MonthlyRequests(p))
           latencies == [j \in 1..n |-> EstimateLatency(prompts[j], p.query.output_tokens, FALSE)]
           latency == GrepLatency(latencies)
       IN Ok(CalculationResult(
                "Just Grep",
                monthly_cost,
                cost_per_request,
                latency.total,
                total_input_tokens,
                latency,
                [input |-> input_cost_per_request,
                 output |-> output_cost_per_request],
                [monthly_requests |-> Str(MonthlyRequests(p)),
                 llm_calls |-> Str(attempts),
                 failed_attempts |-> Str(failed_attempts),
                 tokens_per_call |->
                     Join("|", [j \in 1..n |-> FormatThousands(prompts[j])])]))

----------------------------------------------------------------------------
(* calculators/rag.py                                                      *)

\* RAGCalculator.calculate.  Line 17 divides by tokens_per_page, lines 22-24
\* are the two catalog lookups, and line 30 reads
\* params.rag.rerank_context_limit.  RAGParams declares no such field and
\* nothing in the repository sets one, so on every RAGParams instance the read
\* raises AttributeError and the statements after line 30 are never executed.
RAGCalculate(cat, p) ==
    LET retrieved_tokens == p.rag.top_k * p.rag.tokens_per_chunk
        prompt_tokens == retrieved_tokens + p.query.query_tokens
        plan_key == Some(p.pricing.plan_key)
        input_rate == CatalogPrice(cat, "input", prompt_tokens, plan_key)
        output_rate == CatalogPrice(cat, "output", prompt_tokens, plan_key)
    IN IF p.knowledge_base.tokens_per_page = 0 THEN Raise("ZeroDivisionError")
       ELSE IF ~input_rate.ok THEN input_rate
       ELSE IF ~output_rate.ok THEN output_rate
       ELSE Raise("AttributeError")

----------------------------------------------------------------------------
(* The inputs.  ui/sidebar.py builds an AppParams from its widgets; the    *)
(* calculators also accept any AppParams a caller constructs.              *)

MaxTries == 3
MaxUpdates == 1
MaxRequestSteps == 1

\* sidebar.py:20-25
DensityOptions == {400, 600, 800, 1100}
\* sidebar.py:35-41: 100 .. 10_000 in steps of 100; 500 pages of 400 tokens
\* are exactly the 200_000 tokens of the default plan's tier bound
PagesOptions == {100, 500}
\* sidebar.py:54-60 has 100 .. 100_000 in steps of 100; 0 is a caller's value
RequestsPerDayOptions == {100 * i : i \in 0..MaxRequestSteps}
\* sidebar.py:92-98: 1 .. 10
DocsRetrievedOptions == {1, 10}
\* sidebar.py:112-118: 1 .. 20, 3 by default
TopKOptions == {3}
\* QueryParams defaults, and a caller's zeros
QueryTokensOptions == {0, 50}
OutputTokensOptions == {0, 1000}
\* the registered keys, the empty string and a key nobody registered
PlanKeyOptions == DOMAIN PRICING_PLANS \cup {"", "gpt-4o"}

AllParams ==
    {AppParams(KnowledgeBaseParams(pages, tpp, upd),
               QueryParams(q, o),
               RAGParams(k, 26),
               GrepParams(tries, docs),
               PricingParams(key),
               rpd) :
        pages \in PagesOptions, tpp \in DensityOptions, upd \in 0..MaxUpdates,
        q \in QueryTokensOptions, o \in OutputTokensOptions, k \in TopKOptions,
        tries \in 0..MaxTries, docs \in DocsRetrievedOptions,
        key \in PlanKeyOptions, rpd \in RequestsPerDayOptions}

\* render_sidebar: the ranges of the widgets and the defaults it leaves alone
SidebarBuilt(p) ==
    /\ p.knowledge_base.tokens_per_page \in DensityOptions
    /\ p.knowledge_base.pages \in {100 * i : i \in 1..100}
    /\ p.knowledge_base.updates_per_month \in 0..30
    /\ p.knowledge_base.cache_storage_hours_per_month = 24 * 30
    /\ p.requests_per_day \in {100 * i : i \in 1..1000}
    /\ p.pricing.plan_key \in DOMAIN PRICING_PLANS
    /\ p.grep \in {GrepParams(t, d) : t \in 1..10, d \in 1..10}
    /\ p.query = QueryParams(50, 1000)
    /\ \E k \in 1..20 : p.rag = RAGParams(k, p.rag.vector_db_base_cost)
    /\ p.rag.vector_db_base_cost >= 0

\* The widgets' default values (sidebar.py value= arguments).
DefaultParams ==
    AppParams(KnowledgeBaseParams(1000, 600, 4), QueryParams(50, 1000),
              RAGParams(3, 26), GrepParams(4, 1), PricingParams(DEFAULT_PLAN_KEY), 1000)

----------------------------------------------------------------------------
(* The state machine.                                                      *)

Calculators == {"LongContextNoCache", "LongContextWithCache", "GrepCalculator", "RAGCalculator"}

\* The upper bounds of the bounded tiers of the registered plans.
TierBounds ==
    UNION { { PRICING_PLANS[k].tiers[i].up_to_tokens[1] :
              i \in { j \in DOMAIN PRICING_PLANS[k].tiers :
                      PRICING_PLANS[k].tiers[j].up_to_tokens # None } } :
            k \in DOMAIN PRICING_PLANS }

\* Token counts for direct catalog calls: around every tier bound, and the ends.
TokenProbes == {0, 1, 1000000} \cup UNION { {b - 1, b, b + 1} : b \in TierBounds }

\* Plan-key arguments of direct catalog calls: None and every string of PlanKeyOptions.
PlanKeyArgs == {None} \cup {Some(k) : k \in PlanKeyOptions}

NoLookup == [op |-> "none"]

\* pricing = PricingCatalog(PRICING_PLANS, DEFAULT_PLAN_KEY) at import
InitState ==
    /\ pricing = PricingCatalog(PRICING_PLANS, DEFAULT_PLAN_KEY).value
    /\ results = [c \in Calculators |-> None]
    /\ lookup = NoLookup

Init ==
    /\ InitState
    /\ params \in AllParams

InitCatalog ==
    /\ InitState
    /\ params \in {[DefaultParams EXCEPT !.pricing = PricingParams(k)] : k \in PlanKeyOptions}

\* PricingCatalog(PRICING_PLANS, default_key), a second catalog built by a caller
CallPricingCatalog ==
    /\ \E default_key \in PlanKeyOptions :
          lookup' = [op |-> "PricingCatalog", default_key |-> default_key,
                     outcome |-> PricingCatalog(PRICING_PLANS, default_key)]
    /\ UNCHANGED <<pricing, params, results>>

\* pricing.get_plan(plan_key)
CallGetPlan ==
    /\ \E plan_key \in PlanKeyArgs :
          lookup' = [op |-> "get_plan", plan_key |-> plan_key,
                     outcome |-> GetPlan(pricing, plan_key)]
    /\ UNCHANGED <<pricing, params, results>>

\* pricing.input_price(tokens, plan_key) and its four siblings
CallPrice(kind) ==
    /\ \E tokens \in TokenProbes, plan_key \in PlanKeyArgs :
          lookup' = [op |-> "price", kind |-> kind, tokens |-> tokens,
                     plan_key |-> plan_key,
                     outcome |-> CatalogPrice(pricing, kind, tokens, plan_key)]
    /\ UNCHANGED <<pricing, params, results>>

\* calc.calculate(params) of app.py:44, one action per calculator; an
\* exception is recorded in place of the result.
RunLongContextNoCache ==
    /\ results' = [results EXCEPT !["LongContextNoCache"] =
                      Some(LongContextNoCacheCalculate(pricing, params))]
    /\ UNCHANGED <<pricing, params, lookup>>

\* The mutant of C16: the With-Cache calculator writes the cached prompt size
\* back into the query parameters it was given.
RunLongContextWithCacheInPlace ==
    /\ results' = [results EXCEPT !["LongContextWithCache"] =
                      Some(LongContextWithCacheCalculate(pricing, params))]
    /\ params' = [params EXCEPT !.query.query_tokens = CachedTtftTokens(params)]
    /\ UNCHANGED <<pricing, lookup>>

RunLongContextWithCache ==
    /\ results' = [results EXCEPT !["LongContextWithCache"] =
                      Some(LongContextWithCacheCalculate(pricing, params))]
    /\ UNCHANGED <<pricing, params, lookup>>

RunGrepCalculator ==
    /\ results' = [results EXCEPT !["GrepCalculator"] =
                      Some(GrepCalculate(pricing, params))]
    /\ UNCHANGED <<pricing, params, lookup>>

RunRAGCalculator ==
    /\ results' = [results EXCEPT !["RAGCalculator"] =
                      Some(RAGCalculate(pricing, params))]
    /\ UNCHANGED <<pricing, params, lookup>>

NextCalculators ==
    \/ RunLongContextNoCache
    \/ RunLongContextWithCache
    \/ RunGrepCalculator
    \/ RunRAGCalculator

NextCatalog ==
    \/ CallPricingCatalog
    \/ CallGetPlan
    \/ CallPrice("input")
    \/ CallPrice("output")
    \/ CallPrice("cache_write")
    \/ CallPrice("cache_read")
    \/ CallPrice("cache_storage_per_hour")
    \/ NextCalculators

Next == NextCalculators

\* The calculators on every parameter set of the bounds.
Spec == Init /\ [][Next]_vars

\* Parameter sets a caller builds itself, outside the sidebar's steps: small
\* knowledge bases of 660, 670 and 6670 tokens, 15% of which is 99, 100.5 and
\* 1000.5 tokens, next to the bounds of the first two prompt-size bands.
CallerPagesOptions == {66, 67, 667}
CallerTriesOptions == {1, 2}

CallerParams ==
    { AppParams(KnowledgeBaseParams(pages, 10, 1), QueryParams(q, o), RAGParams(3, 26),
                GrepParams(t, 1), PricingParams(k), 100) :
        pages \in CallerPagesOptions, q \in QueryTokensOptions,
        o \in OutputTokensOptions, t \in CallerTriesOptions, k \in PlanKeyOptions }

InitCaller ==
    /\ InitState
    /\ params \in CallerParams

\* The calculators on the caller-built parameter sets.
SpecCaller == InitCaller /\ [][Next]_vars

\* The catalog's interface and the calculators, on the default parameters
\* under every plan key.
SpecCatalog == InitCatalog /\ [][NextCatalog]_vars

----------------------------------------------------------------------------
(* The latency functions of utils/latency.py called directly.               *)

\* Document counts of direct calls run from 0 to MaxDocCount, past both
\* calibration points (24 and 96).
MaxDocCount == 100

\* Prompt sizes around every band bound of _prefill_time and
\* _streaming_throughput.
PromptProbes ==
    {0, 1, 1000000} \cup UNION { {b - 1, b, b + 1} : b \in {100, 1000, 10000, 50000} }

\* Arguments of direct estimate_rag_latency calls
CorpusProbes == {1500, 600000}
RagTopKProbes == {3, 60}
RagPromptProbes == {2450, 16050}
CompletionProbes == {0, 1000}
MonthlyRequestsProbes == {0, 7, 30000}
UpdatesProbes == {0, 4}
RerankTopKProbes == {None, Some(20)}

InitLatency ==
    /\ InitState
    /\ params = DefaultParams

\* _prefill_time(prompt_tokens, uses_cache)
CallPrefillTime ==
    /\ \E prompt_tokens \in PromptProbes, uses_cache \in BOOLEAN :
          lookup' = [op |-> "_prefill_time", prompt_tokens |-> prompt_tokens,
                     uses_cache |-> uses_cache,
                     outcome |-> PrefillTime(prompt_tokens, uses_cache)]
    /\ UNCHANGED <<pricing, params, results>>

\* estimate_reranking_latency(doc_count)
CallEstimateRerankingLatency ==
    /\ \E doc_count \in 0..MaxDocCount :
          lookup' = [op |-> "estimate_reranking_latency", doc_count |-> doc_count,
                     outcome |-> EstimateRerankingLatency(doc_count)]
    /\ UNCHANGED <<pricing, params, results>>

\* estimate_rag_latency(corpus_tokens, top_k, prompt_tokens, completion_tokens,
\* monthly_requests, updates_per_month, rerank_top_k=..., uses_cache=...)
CallEstimateRagLatency ==
    /\ \E corpus_tokens \in CorpusProbes, top_k \in RagTopKProbes,
          prompt_tokens \in RagPromptProbes, completion_tokens \in CompletionProbes,
          monthly_requests \in MonthlyRequestsProbes,
          updates_per_month \in UpdatesProbes,
          rerank_top_k \in RerankTopKProbes, uses_cache \in BOOLEAN :
          lookup' = [op |-> "estimate_rag_latency",
                     corpus_tokens |-> corpus_tokens, top_k |-> top_k,
                     prompt_tokens |-> prompt_tokens,
                     completion_tokens |-> completion_tokens,
                     monthly_requests |-> monthly_requests,
                     updates_per_month |-> updates_per_month,
                     rerank_top_k |-> rerank_top_k, uses_cache |-> uses_cache,
                     outcome |-> EstimateRagLatency(corpus_tokens, top_k,
                                     prompt_tokens, completion_tokens,
                                     monthly_requests, updates_per_month,
                                     rerank_top_k, uses_cache)]
    /\ UNCHANGED <<pricing, params, results>>

\* estimate_latency(prompt_tokens, completion_tokens, uses_cache)
CallEstimateLatency ==
    /\ \E prompt_tokens \in PromptProbes, completion_tokens \in CompletionProbes,
          uses_cache \in BOOLEAN :
          lookup' = [op |-> "estimate_latency", prompt_tokens |-> prompt_tokens,
                     completion_tokens |-> completion_tokens,
                     uses_cache |-> uses_cache,
                     outcome |-> EstimateLatency(prompt_tokens, completion_tokens,
                                                 uses_cache)]
    /\ UNCHANGED <<pricing, params, results>>

NextLatency ==
    \/ CallPrefillTime
    \/ CallEstimateLatency
    \/ CallEstimateRerankingLatency
    \/ CallEstimateRagLatency

\* The latency functions on the probe arguments.
SpecLatency == InitLatency /\ [][NextLatency]_vars

\* Accessors of results
Called(c) == results[c] # None
Outcome(c) == results[c][1]
Returned(c) == Called(c) /\ Outcome(c).ok
Result(c) == Outcome(c).value

----------------------------------------------------------------------------
(* The claims.                                                             *)

NoCache == "LongContextNoCache"
WithCache == "LongContextWithCache"
Grep == "GrepCalculator"
RAG == "RAGCalculator"

\* The plan the calculators price params with, when its key resolves.
ParamsPlan == GetPlan(pricing, Some(params.pricing.plan_key))

\* C1: for a registered plan and a bounded tier with upper bound B, a price
\* lookup of any of the five kinds at N = B returns that tier's rate, and at
\* N = B + 1 the rate of the next tier in the plan's order.
C1_TierBoundaryExact ==
    (/\ lookup.op = "price"
     /\ lookup.plan_key # None
     /\ lookup.plan_key[1] \in DOMAIN pricing.plans)
    => LET plan == pricing.plans[lookup.plan_key[1]]
       IN \A i \in DOMAIN plan.tiers :
             plan.tiers[i].up_to_tokens # None =>
                LET B == plan.tiers[i].up_to_tokens[1]
                IN /\ lookup.tokens = B =>
                        lookup.outcome = Ok(TierField(plan.tiers[i], lookup.kind))
                   /\ (lookup.tokens = B + 1 /\ i < Len(plan.tiers)) =>
                        lookup.outcome = Ok(TierField(plan.tiers[i + 1], lookup.kind))

\* C1 witness: the cache-read price of the default plan one token above its
\* 200,000 bound is the second tier's 0.60.
C1_Witness ==
    /\ lookup.op = "price"
    /\ lookup.kind = "cache_read"
    /\ lookup.plan_key = Some(DEFAULT_PLAN_KEY)
    /\ lookup.tokens = 200001
    /\ lookup.outcome = Ok(60)

\* C2: for every plan key that is a string and is not registered (the empty
\* string included), get_plan and the five price lookups raise the
\* plan-not-found error, and every calculator given such a key raises it too
\* and returns no result.
C2_UnknownKeyAlwaysFails ==
    /\ (/\ lookup.op \in {"get_plan", "price"}
        /\ lookup.plan_key # None
        /\ lookup.plan_key[1] \notin DOMAIN pricing.plans)
       => lookup.outcome = Raise("KeyError")
    /\ params.pricing.plan_key \notin DOMAIN pricing.plans
       => \A c \in Calculators : Called(c) => Outcome(c) = Raise("KeyError")

\* C3: on every parameter set the sidebar can build, each of the four
\* calculators returns a CalculationResult and raises nothing.
C3_CalculatorsTotalOnSidebarParams ==
    SidebarBuilt(params) => \A c \in Calculators : Called(c) => Outcome(c).ok

\* C4: with no rerank context limit set in the RAG parameters, the RAG
\* calculator batches with the limit 4096 and max(0, 4096 - query_tokens)
\* tokens for documents, so that docs-per-rerank-call is
\* max(1, floor(max(0, 4096 - query_tokens) / tokens_per_chunk)).
C4_RerankLimitDefaultsTo4096 ==
    (/\ Called(RAG)
     /\ "rerank_context_limit" \notin DOMAIN params.rag
     /\ ParamsPlan.ok)
    => /\ Returned(RAG)
       /\ Result(RAG).additional_metrics.docs_per_rerank_call =
             Str(Max(1, Max(0, 4096 - params.query.query_tokens)
                           \div params.rag.tokens_per_chunk))

\* C5: the Long-Context-With-Cache result has cost_per_request = cache_read +
\* query_input + output and monthly_cost = cache_write + cache_storage +
\* cost_per_request * monthly_requests over the values of its cost_breakdown,
\* with cache_write = total_tokens * cache-write rate * updates_per_month and
\* cache_storage = total_tokens * storage rate * cache_storage_hours_per_month.
C5_WithCacheDecomposition ==
    Returned(WithCache) =>
        LET r == Result(WithCache)
            b == r.cost_breakdown
            kb == params.knowledge_base
            tier == TierForTokens(ParamsPlan.value, TotalTokens(kb))
        IN /\ r.cost_per_request = BigAdd(BigAdd(b.cache_read, b.query_input), b.output)
           /\ r.monthly_cost =
                 BigAdd(BigAdd(b.cache_write, b.cache_storage),
                        BigTimes(r.cost_per_request, MonthlyRequests(params)))
           /\ b.cache_write =
                 BigTimes(BigTimes(BigOf(TotalTokens(kb)), tier.cache_write_per_million),
                          kb.updates_per_month)
           /\ b.cache_storage =
                 BigTimes(BigTimes(BigOf(TotalTokens(kb)), tier.cache_storage_per_million_hour),
                          kb.cache_storage_hours_per_month)

\* C5 witness: a with-cache result under the Gemini plan, whose storage rate
\* is not zero, with one cache write a month and requests to serve.
C5_Witness ==
    /\ Returned(WithCache)
    /\ params.pricing.plan_key = "gemini-2.5-flash"
    /\ params.knowledge_base.updates_per_month = 1
    /\ params.requests_per_day = 100
    /\ Result(WithCache).cost_breakdown.cache_storage # BigOf(0)
    /\ Result(WithCache).cost_breakdown.cache_write # BigOf(0)

\* C6: the Long-Context-No-Cache result has input_tokens = pages *
\* tokens_per_page + query_tokens, cost_per_request = input_tokens * input
\* rate + output_tokens * output rate with both rates from the one tier that
\* input_tokens selects, and monthly_cost = cost_per_request *
\* requests_per_day * 30.
C6_NoCacheCost ==
    Returned(NoCache) =>
        LET r == Result(NoCache)
            n == params.knowledge_base.pages * params.knowledge_base.tokens_per_page
                 + params.query.query_tokens
            tier == TierForTokens(ParamsPlan.value, n)
        IN /\ r.input_tokens = n
           /\ r.cost_per_request =
                 BigAdd(BigTimes(BigOf(n), tier.input_per_million),
                        BigTimes(BigOf(params.query.output_tokens), tier.output_per_million))
           /\ r.monthly_cost =
                 BigTimes(BigTimes(r.cost_per_request, params.requests_per_day), 30)

\* C6 witness: a no-cache result whose prompt is in the default plan's second
\* tier while its 1000 output tokens alone would be in the first.
C6_Witness ==
    /\ Returned(NoCache)
    /\ params.pricing.plan_key = DEFAULT_PLAN_KEY
    /\ Result(NoCache).input_tokens = 200050
    /\ params.query.output_tokens = 1000
    /\ params.requests_per_day = 100
    /\ Result(NoCache).cost_breakdown.output = BigOf(1000 * 2250)

\* The prompt sizes C7 states: failed attempt i (0-indexed) and the last one.
C7_FailedPrompt(i) ==
    params.query.query_tokens
    + (i + 1) * (params.grep.avg_docs_retrieved * params.grep.avg_pages_per_document
                 * params.knowledge_base.tokens_per_page)
C7_Attempts == IF params.grep.avg_tries >= 1 THEN params.grep.avg_tries ELSE 1
C7_LastPrompt ==
    params.query.query_tokens
    + (C7_Attempts - 1) * (params.grep.avg_docs_retrieved * params.grep.avg_pages_per_document
                           * params.knowledge_base.tokens_per_page)
    + params.grep.avg_pages_per_document * params.knowledge_base.tokens_per_page
C7_Prompts ==
    [j \in 1..C7_Attempts |-> IF j < C7_Attempts THEN C7_FailedPrompt(j - 1) ELSE C7_LastPrompt]

\* C7: the Grep calculator makes max(1, avg_tries) calls, all but the last
\* failed; failed attempt i has the prompt query_tokens + (i+1) *
\* false_file_tokens, the last one query_tokens + failed_attempts *
\* false_file_tokens + true_file_tokens, and input_tokens is their sum.
C7_GrepPrompts ==
    Returned(Grep) =>
        LET r == Result(Grep)
            failed == C7_Attempts - 1
            false_tokens == params.grep.avg_docs_retrieved
                            * params.grep.avg_pages_per_document
                            * params.knowledge_base.tokens_per_page
        IN /\ r.additional_metrics.llm_calls = Str(C7_Attempts)
           /\ r.additional_metrics.failed_attempts = Str(failed)
           /\ r.additional_metrics.tokens_per_call =
                 Join("|", [j \in 1..C7_Attempts |-> FormatThousands(C7_Prompts[j])])
           /\ r.input_tokens =
                 failed * params.query.query_tokens
                 + false_tokens * ((failed * (failed + 1)) \div 2)
                 + C7_LastPrompt

\* C7 witness: a grep result of three tries.
C7_Witness ==
    /\ Returned(Grep)
    /\ params.grep.avg_tries = 3
    /\ params.grep.avg_docs_retrieved = 10
    /\ Result(Grep).additional_metrics.failed_attempts = <<"2">>

\* C8: every grep attempt is billed by the tier of its own prompt size:
\* cost_per_request is the sum over the attempts j of p_j * input rate(tier
\* of p_j) + output_tokens * output rate(tier of p_j), and monthly_cost =
\* cost_per_request * monthly_requests.
C8_GrepBilledPerAttempt ==
    Returned(Grep) =>
        LET r == Result(Grep)
            tier(j) == TierForTokens(ParamsPlan.value, C7_Prompts[j])
        IN /\ r.cost_per_request =
                 BigSum([j \in 1..C7_Attempts |->
                            BigAdd(BigTimes(BigOf(C7_Prompts[j]), tier(j).input_per_million),
                                   BigTimes(BigOf(params.query.output_tokens),
                                            tier(j).output_per_million))])
           /\ r.monthly_cost = BigTimes(r.cost_per_request, MonthlyRequests(params))

\* C8 witness: a grep result whose first attempt is priced from the default
\* plan's first tier and whose last attempt from its second.
C8_Witness ==
    /\ Returned(Grep)
    /\ params.pricing.plan_key = DEFAULT_PLAN_KEY
    /\ params.query.output_tokens = 1000
    /\ C7_Attempts = 3
    /\ C7_Prompts[1] <= 200000
    /\ C7_Prompts[3] > 200000

\* C9: for avg_tries = 1 the grep result has failed_attempts 0 and llm_calls
\* 1, and its cost, input_tokens and latency fields are those of one call
\* with the prompt query_tokens + true_file_tokens.
C9_GrepSingleTry ==
    (Returned(Grep) /\ params.grep.avg_tries = 1) =>
        LET r == Result(Grep)
            prompt == params.query.query_tokens
                      + params.grep.avg_pages_per_document
                        * params.knowledge_base.tokens_per_page
            tier == TierForTokens(ParamsPlan.value, prompt)
        IN /\ r.additional_metrics.failed_attempts = <<"0">>
           /\ r.additional_metrics.llm_calls = <<"1">>
           /\ r.input_tokens = prompt
           /\ r.cost_per_request =
                 BigAdd(BigTimes(BigOf(prompt), tier.input_per_million),
                        BigTimes(BigOf(params.query.output_tokens), tier.output_per_million))
           /\ r.latency = EstimateLatency(prompt, params.query.output_tokens, FALSE)
           /\ r.avg_time_seconds = r.latency.total

\* C9 witness: a grep result of one try with ten documents per grep call.
C9_Witness ==
    /\ Returned(Grep)
    /\ params.grep.avg_tries = 1
    /\ params.grep.avg_docs_retrieved = 10
    /\ params.query.output_tokens = 1000

\* The monthly vector-DB cost C10 states, in 1e-8 dollar.
C10_VectorDbMonthly(rerank_calls) ==
    BigAdd(BigAdd(BigTimes(BigOf(params.rag.vector_db_base_cost), 10^8),
                  BigTimes(BigTimes(BigOf(TotalTokens(params.knowledge_base)),
                                    params.rag.embedding_price_per_million),
                           params.knowledge_base.updates_per_month)),
           BigTimes(BigTimes(BigOf(rerank_calls), params.rag.rerank_price_per_query),
                    MonthlyRequests(params)))

\* C10: on every parameter set (with a plan key that resolves) the RAG
\* calculator returns a result with vector_db_cost_per_request = (base +
\* embedding + rerank monthly) / monthly_requests, or 0 when monthly_requests
\* is 0, cost_per_request = LLM cost + vector_db_cost_per_request, and
\* monthly_cost = LLM cost * monthly_requests + (base + embedding + rerank
\* monthly).
C10_RagCostComposition ==
    (Called(RAG) /\ ParamsPlan.ok) =>
        /\ Returned(RAG)
        /\ LET r == Result(RAG)
               b == r.cost_breakdown
               mr == MonthlyRequests(params)
               llm == BigAdd(b.llm_input, b.llm_output)
               monthly == BigAdd(BigAdd(BigTimes(BigOf(b.vector_db_base), 10^8), b.embedding),
                                 b.rerank)
           IN /\ mr > 0 => BigTimes(b.vector_db_per_request, mr) = monthly
              /\ mr = 0 => b.vector_db_per_request = BigOf(0)
              /\ r.cost_per_request = BigAdd(llm, b.vector_db_per_request)
              /\ r.monthly_cost = BigAdd(BigTimes(llm, mr), monthly)
              /\ \E calls \in 0..20 : monthly = C10_VectorDbMonthly(calls)

\* C11: on every parameter set (with a plan key that resolves) the RAG
\* calculator returns a result that reports docs_per_rerank_call =
\* max(1, (4096 - query_tokens) div tokens_per_chunk) and
\* rerank_calls_per_request = ceiling(max(top_k, rerank_top_k) /
\* docs_per_rerank_call), 0 when there are no candidates; for query_tokens 50,
\* tokens_per_chunk 800, rerank_top_k 20 and top_k 3 these are 5 and 4.
C11_RerankBatching ==
    (Called(RAG) /\ ParamsPlan.ok) =>
        /\ Returned(RAG)
        /\ LET m == Result(RAG).additional_metrics
               candidates == Max(params.rag.top_k, params.rag.rerank_top_k)
               docs_per_call ==
                   Max(1, Max(0, 4096 - params.query.query_tokens)
                              \div params.rag.tokens_per_chunk)
               calls == IF candidates = 0 THEN 0
                        ELSE (candidates + docs_per_call - 1) \div docs_per_call
           IN /\ m.docs_per_rerank_call = Str(docs_per_call)
              /\ m.rerank_calls_per_request = Str(calls)
              /\ (params.query.query_tokens = 50 /\ params.rag.top_k = 3) =>
                    (docs_per_call = 5 /\ calls = 4)

\* C12: a call of estimate_rag_latency returns indexing_total_monthly =
\* (corpus_tokens / embedding throughput) * updates_per_month;
\* indexing_amortized = indexing_total_monthly / monthly_requests when
\* monthly_requests > 0 and exactly 0 when monthly_requests = 0; total =
\* indexing_amortized + retrieval + reranking + (llm_ttft + llm_decode); and
\* e2e_without_indexing = retrieval + reranking + llm_total = total -
\* indexing_amortized.
C12_RagLatencyComposition ==
    lookup.op = "estimate_rag_latency" =>
        LET l == lookup.outcome
            mr == lookup.monthly_requests
            rest == BigAdd(BigAdd(l.retrieval, l.reranking),
                           BigAdd(l.llm_ttft, l.llm_decode))
        IN \* indexing_total_monthly * embedding throughput, in seconds
           /\ BigTimes(l.indexing_total_monthly, EMBEDDING_THROUGHPUT)
                = BigTimes(BigTimes(BigOf(lookup.corpus_tokens * lookup.updates_per_month),
                                    1000),
                           FineTicksPerMs)
           /\ l.indexing_amortized.den > 0
           /\ l.total.den > 0
           /\ mr > 0 => BigTimes(l.indexing_amortized.num, mr)
                          = BigTimes(l.indexing_total_monthly, l.indexing_amortized.den)
           /\ mr = 0 => l.indexing_amortized.num = BigOf(0)
           /\ RatEq(l.total, RatAdd(l.indexing_amortized, rest))
           /\ l.llm_total = BigAdd(l.llm_ttft, l.llm_decode)
           /\ l.e2e_without_indexing
                = BigAdd(BigAdd(l.retrieval, l.reranking), l.llm_total)
           /\ RatEq(l.total, RatAdd(l.indexing_amortized, l.e2e_without_indexing))

\* C12 witness: a call whose monthly indexing time (4 s) is not a multiple of
\* its monthly_requests (7).
C12_Witness ==
    /\ lookup.op = "estimate_rag_latency"
    /\ lookup.corpus_tokens = 1500
    /\ lookup.updates_per_month = 4
    /\ lookup.monthly_requests = 7
    /\ lookup.completion_tokens = 1000

\* The cached ttft, in ticks, of a prompt of x / 100 tokens: network overhead
\* plus CACHE_SPEEDUP_FACTOR of the base TTFT of the band that holds x / 100.
C13_CachedTtft(x) ==
    LET base == IF x <= 100 * 100 THEN TTFT_100
                ELSE IF x <= 1000 * 100 THEN TTFT_1K
                ELSE IF x <= 10000 * 100 THEN TTFT_10K
                ELSE TTFT_100K
    IN ((BASE_NET_OVERHEAD * 100 + CACHE_SPEEDUP_FACTOR * base) * TicksPerMs) \div 100

\* C13 as stated: the with-cache ttft is network overhead + 0.25 * base TTFT
\* of the band that holds the value 0.15 * total_tokens + query_tokens, also
\* when 0.15 * total_tokens is not an integer.
C13_CachedTtftByExactValue ==
    Returned(WithCache) =>
        Result(WithCache).latency.ttft
            = C13_CachedTtft(15 * TotalTokens(params.knowledge_base)
                               + 100 * params.query.query_tokens)

\* C13 amended: the with-cache ttft is network overhead + 0.25 * base TTFT of
\* the band that holds floor(0.15 * total_tokens) + query_tokens.
C13_CachedTtftByTruncatedValue ==
    Returned(WithCache) =>
        Result(WithCache).latency.ttft
            = C13_CachedTtft(100 * ((15 * TotalTokens(params.knowledge_base)) \div 100
                                      + params.query.query_tokens))

\* C13 witness: a with-cache result on 670 tokens with an empty query, where
\* 0.15 * total_tokens = 100.5 lies just above the bound of the first band.
C13_Witness ==
    /\ Returned(WithCache)
    /\ TotalTokens(params.knowledge_base) = 670
    /\ params.query.query_tokens = 0

\* C14: the grep latency adds the attempts up: ttft is the sum of every
\* attempt's ttft, decode the sum of every attempt's decode time (output_tokens
\* at the throughput band of the attempt's own prompt), total = ttft + decode
\* = avg_time_seconds, and throughput is that of the last attempt alone.
C14_GrepLatencySequential ==
    Returned(Grep) =>
        LET r == Result(Grep)
            n == C7_Attempts
            out == params.query.output_tokens
        IN /\ r.latency.ttft = SeqSum([j \in 1..n |-> PrefillTime(C7_Prompts[j], FALSE)])
           /\ r.latency.decode =
                 SeqSum([j \in 1..n |->
                           (out * TicksPerSecond) \div StreamingThroughput(C7_Prompts[j])])
           /\ r.latency.total = r.latency.ttft + r.latency.decode
           /\ r.avg_time_seconds = r.latency.total
           /\ r.latency.throughput = StreamingThroughput(C7_LastPrompt)

\* C14 witness: a grep result of three tries whose first attempt streams in
\* another throughput band than its last.
C14_Witness ==
    /\ Returned(Grep)
    /\ params.grep.avg_tries = 3
    /\ params.query.output_tokens = 1000
    /\ StreamingThroughput(C7_Prompts[1]) # Result(Grep).latency.throughput

\* C15: determinism.  Once a calculator has been invoked on the parameter
\* set, every later invocation on the same parameter set, whatever calculators
\* and catalog calls ran in between, returns the identical outcome: every
\* field of the result, the key sets of latency, cost_breakdown and
\* additional_metrics included.
C15_Deterministic ==
    [][\A c \in Calculators :
          (Called(c) /\ params' = params) => results'[c] = results[c]]_vars

\* C15 witness: the No-Cache calculator has returned on a parameter set that
\* names no plan, and a catalog call for another plan has been made since.
C15_Witness ==
    /\ Returned(NoCache)
    /\ params.pricing.plan_key = ""
    /\ lookup.op = "get_plan"
    /\ lookup.plan_key = Some("gemini-2.5-flash")

\* The outcome of calculator c run alone: invoked on the parameter set with
\* the catalog as imported.
C16_Alone(c) ==
    LET cat == PricingCatalog(PRICING_PLANS, DEFAULT_PLAN_KEY).value
    IN CASE c = NoCache -> LongContextNoCacheCalculate(cat, params)
         [] c = WithCache -> LongContextWithCacheCalculate(cat, params)
         [] c = Grep -> GrepCalculate(cat, params)
         [] c = RAG -> RAGCalculate(cat, params)

\* C16: no step changes the parameter set or the pricing catalog, and in
\* every order of the four calls each calculator's outcome is the one it
\* produces when run alone.
C16_NoInterference ==
    /\ [][params' = params /\ pricing' = pricing]_vars
    /\ [](\A c \in Calculators : Called(c) => Outcome(c) = C16_Alone(c))

\* C16 witness: all four calculators have been called on one parameter set.
C16_Witness ==
    /\ \A c \in Calculators : Called(c)
    /\ Returned(Grep)
    /\ params.grep.avg_tries = 3

\* C17: constructing a catalog whose default key is not among its plans
\* fails; every plan of the shipped catalog has its bounded tiers in strictly
\* ascending order of upper bound, followed by exactly one unbounded tier, in
\* last position; and every price lookup that resolves its plan finds its tier
\* inside the scan, so the last-tier fallback is not taken.
C17_CatalogWellFormed ==
    /\ (lookup.op = "PricingCatalog" /\ lookup.default_key \notin DOMAIN PRICING_PLANS) =>
          lookup.outcome = Raise("ValueError")
    /\ (lookup.op = "PricingCatalog" /\ lookup.outcome.ok) =>
          lookup.outcome.value.default_key \in DOMAIN lookup.outcome.value.plans
    /\ pricing.default_key \in DOMAIN pricing.plans
    /\ \A k \in DOMAIN pricing.plans :
          LET tiers == pricing.plans[k].tiers
              n == Len(tiers)
          IN /\ n >= 1
             /\ tiers[n].up_to_tokens = None
             /\ \A i \in 1..(n - 1) : tiers[i].up_to_tokens # None
             /\ \A i \in 1..(n - 2) :
                   tiers[i].up_to_tokens[1] < tiers[i + 1].up_to_tokens[1]
    /\ (lookup.op = "price" /\ lookup.outcome.ok) =>
          LET tiers == GetPlan(pricing, lookup.plan_key).value.tiers
          IN \E i \in 1..Len(tiers) :
                \/ tiers[i].up_to_tokens = None
                \/ lookup.tokens <= tiers[i].up_to_tokens[1]

\* C17 witness: a construction with a default key that is no plan has failed.
C17_Witness ==
    /\ lookup.op = "PricingCatalog"
    /\ lookup.default_key = "gpt-4o"
    /\ ~lookup.outcome.ok

\* C18: on pages 1000, tokens_per_page 600, updates_per_month 4,
\* requests_per_day 1000, query_tokens 50, output_tokens 1000 and the default
\* plan, monthly_requests is 30000 and the No-Cache calculator returns
\* input_tokens = 600050, the input cost 0.600050 * 6.0 and the output cost
\* 0.001 * 22.5 of the unbounded tier, cost_per_request = 3.6228 dollar and
\* monthly_cost = 3.6228 * 30000 dollar (costs below in 1e-8 dollar).
C18_EndToEndExample ==
    (/\ Called(NoCache)
     /\ params.knowledge_base = KnowledgeBaseParams(1000, 600, 4)
     /\ params.query = QueryParams(50, 1000)
     /\ params.requests_per_day = 1000
     /\ params.pricing.plan_key = DEFAULT_PLAN_KEY) =>
        /\ Returned(NoCache)
        /\ LET r == Result(NoCache)
           IN /\ r.additional_metrics.monthly_requests = <<"3", "0", "0", "0", "0">>
              /\ r.input_tokens = 600050
              /\ r.cost_breakdown.input = BigOf(600050 * 600)
              /\ r.cost_breakdown.output = BigOf(1000 * 2250)
              /\ r.cost_per_request = BigOf(362280000)
              /\ r.monthly_cost = BigTimes(BigOf(362280000), 30000)

\* C18 witness: the No-Cache calculator has returned on the example's
\* parameters.
C18_Witness ==
    /\ Returned(NoCache)
    /\ params = DefaultParams
    /\ Result(NoCache).input_tokens = 600050

\* What C19 states of one call: 0.150 s up to 24 documents, 0.280 s from 96,
\* and in between 0.150 + (d - 24) * (0.280 - 0.150) / (96 - 24) s, which at
\* 60 documents is 0.215 s.
C19_Value ==
    lookup.op = "estimate_reranking_latency" =>
        LET d == lookup.doc_count
            t == lookup.outcome
        IN /\ d <= 24 => t = 150 * FineTicksPerMs
           /\ d >= 96 => t = 280 * FineTicksPerMs
           /\ (24 < d /\ d < 96) =>
                 BigTimes(BigOf(t - 150 * FineTicksPerMs), 96 - 24)
                   = BigTimes(BigOf((280 - 150) * FineTicksPerMs), d - 24)
           /\ d = 60 => t = 215 * FineTicksPerMs

\* What C19 states of two calls in a row: more documents never take less
\* time, and one more document adds at most the interpolation's slope,
\* (0.280 - 0.150) / (96 - 24) s, also across 24 and 96.
C19_Step ==
    (lookup.op = "estimate_reranking_latency" /\ lookup'.op = "estimate_reranking_latency") =>
        /\ lookup.doc_count <= lookup'.doc_count => lookup.outcome <= lookup'.outcome
        /\ lookup'.doc_count = lookup.doc_count + 1 =>
              (lookup'.outcome - lookup.outcome) * (96 - 24) <= (280 - 150) * FineTicksPerMs

\* C19: estimate_reranking_latency(d) is 0.150 s for d <= 24, 0.280 s for
\* d >= 96 and the linear interpolation in between (0.150, 0.215 and 0.280 s at
\* 24, 60 and 96); it is non-decreasing in d and makes no jump at 24 or 96.
C19_RerankingLatency == []C19_Value /\ [][C19_Step]_vars

\* C19 witness: the call for 60 documents has returned 0.215 s.
C19_Witness ==
    /\ lookup.op = "estimate_reranking_latency"
    /\ lookup.doc_count = 60
    /\ lookup.outcome = 215 * FineTicksPerMs

\* C20: _prefill_time(prompt_tokens, cached) is the network overhead plus s
\* times the base of the band of prompt_tokens, the bands being up to 100, up
\* to 1,000, up to 10,000 (bounds included) and above, s being 0.25 when
\* cached and 1 otherwise; the overhead is not scaled.
C20_PrefillTime ==
    lookup.op = "_prefill_time" =>
        LET n == lookup.prompt_tokens
            base == IF n \in 0..100 THEN 1900
                    ELSE IF n \in 101..1000 THEN 2400
                    ELSE IF n \in 1001..10000 THEN 2000
                    ELSE 4300
            scaled == lookup.outcome - 150 * TicksPerMs
        IN /\ lookup.uses_cache => 4 * scaled = base * TicksPerMs
           /\ ~lookup.uses_cache => scaled = base * TicksPerMs

\* C20 witness: the cached call for 1000 tokens has returned 0.15 + 0.25 * 2.4
\* = 0.75 s.
C20_Witness ==
    /\ lookup.op = "_prefill_time"
    /\ lookup.prompt_tokens = 1000
    /\ lookup.uses_cache
    /\ lookup.outcome = 750 * TicksPerMs

\* What C21 states of one call of estimate_latency: the throughput is 150 up
\* to 1,000 prompt tokens, 120 up to 10,000, 90 up to 50,000 and 62 above
\* (bounds included), and the decode time is completion_tokens / throughput
\* seconds, 0 when completion_tokens is 0.
C21_Value ==
    lookup.op = "estimate_latency" =>
        LET n == lookup.prompt_tokens
            l == lookup.outcome
        IN /\ l.throughput = IF n \in 0..1000 THEN 150
                             ELSE IF n \in 1001..10000 THEN 120
                             ELSE IF n \in 10001..50000 THEN 90
                             ELSE 62
           /\ l.decode * l.throughput = lookup.completion_tokens * TicksPerSecond
           /\ lookup.completion_tokens = 0 => l.decode = 0

\* What C21 states of two calls in a row: a longer prompt never streams
\* faster.
C21_Step ==
    (/\ lookup.op = "estimate_latency"
     /\ lookup'.op = "estimate_latency"
     /\ lookup.prompt_tokens <= lookup'.prompt_tokens) =>
        lookup'.outcome.throughput <= lookup.outcome.throughput

\* C21: the decode throughput is the step function 150 / 120 / 90 / 62 with
\* inclusive bounds 1,000, 10,000 and 50,000, non-increasing in the prompt
\* size; the decode time is output tokens / throughput, exactly 0 for no
\* output tokens.
C21_DecodeThroughput == []C21_Value /\ [][C21_Step]_vars

\* C21 witness: the call for 50,001 prompt tokens and 1000 output tokens has
\* returned the last band's throughput.
C21_Witness ==
    /\ lookup.op = "estimate_latency"
    /\ lookup.prompt_tokens = 50001
    /\ lookup.completion_tokens = 1000
    /\ lookup.outcome.throughput = 62

\* C22: on every parameter set (with a plan key that resolves) the RAG
\* calculator returns a result whose reranking latency is that of rerank_top_k
\* documents, whatever top_k is, while its rerank cost is charged for
\* max(top_k, rerank_top_k) candidates; the two counts coincide when top_k <=
\* rerank_top_k, and the latency is that of fewer documents than are charged
\* when top_k > rerank_top_k.
C22_RerankLatencyVersusBilling ==
    (Called(RAG) /\ ParamsPlan.ok) =>
        /\ Returned(RAG)
        /\ LET r == Result(RAG)
               timed == params.rag.rerank_top_k
               billed == Max(params.rag.top_k, params.rag.rerank_top_k)
               docs_per_call == Max(1, Max(0, 4096 - params.query.query_tokens)
                                          \div params.rag.tokens_per_chunk)
               calls == (billed + docs_per_call - 1) \div docs_per_call
           IN /\ r.latency.reranking = BigOf(EstimateRerankingLatency(timed))
              /\ r.cost_breakdown.rerank
                   = BigTimes(BigTimes(BigOf(calls), params.rag.rerank_price_per_query),
                              MonthlyRequests(params))
              /\ params.rag.top_k <= params.rag.rerank_top_k => timed = billed
              /\ params.rag.top_k > params.rag.rerank_top_k => timed < billed

\* C24: on every parameter set (with a plan key that resolves) the RAG
\* calculator returns a result with monthly_cost = cost_per_request *
\* monthly_requests when monthly_requests > 0, and with monthly_cost =
\* vector_db_base + embedding and cost_per_request = the LLM cost alone when
\* monthly_requests = 0.
C24_RagCostConsistency ==
    (Called(RAG) /\ ParamsPlan.ok) =>
        /\ Returned(RAG)
        /\ LET r == Result(RAG)
               b == r.cost_breakdown
               mr == MonthlyRequests(params)
           IN /\ mr > 0 => r.monthly_cost = BigTimes(r.cost_per_request, mr)
              /\ mr = 0 =>
                    /\ r.monthly_cost
                         = BigAdd(BigTimes(BigOf(b.vector_db_base), 10^8), b.embedding)
                    /\ r.cost_per_request = BigAdd(b.llm_input, b.llm_output)

\* C26: on every parameter set (with a plan key that resolves, tokens_per_chunk
\* >= 1 and at least one candidate) the RAG calculator returns a result whose
\* docs_per_rerank_call is at least 1 and whose rerank_calls_per_request lies
\* between 1 and the number of candidates, with calls * docs_per_call >=
\* candidates > (calls - 1) * docs_per_call.
C26_RerankBatchesCover ==
    (/\ Called(RAG)
     /\ ParamsPlan.ok
     /\ params.rag.tokens_per_chunk >= 1
     /\ Max(params.rag.top_k, params.rag.rerank_top_k) >= 1) =>
        /\ Returned(RAG)
        /\ LET m == Result(RAG).additional_metrics
               candidates == Max(params.rag.top_k, params.rag.rerank_top_k)
           IN \E docs_per_call \in 1..4096, calls \in 1..candidates :
                 /\ m.docs_per_rerank_call = Str(docs_per_call)
                 /\ m.rerank_calls_per_request = Str(calls)
                 /\ calls * docs_per_call >= candidates
                 /\ (calls - 1) * docs_per_call < candidates

\* The tier of the parameters' plan that holds a token count: the one after
\* the bounded tiers whose bound is below the count.
C23_TierIndex(tokens) ==
    LET tiers == ParamsPlan.value.tiers
    IN 1 + Cardinality({i \in DOMAIN tiers :
                           /\ tiers[i].up_to_tokens # None
                           /\ tiers[i].up_to_tokens[1] < tokens})

\* C23: in the With-Cache result the cache-write, cache-read and
\* cache-storage costs are priced by the tier of total_tokens, the query-input
\* and output costs by the tier of total_tokens + query_tokens; the two tiers
\* differ exactly when a tier bound B has total_tokens <= B < total_tokens +
\* query_tokens, and then the second is the tier after the first.
C23_WithCacheTierSplit ==
    Returned(WithCache) =>
        LET b == Result(WithCache).cost_breakdown
            kb == params.knowledge_base
            total == TotalTokens(kb)
            prompt == total + params.query.query_tokens
            tiers == ParamsPlan.value.tiers
            kb_tier == tiers[C23_TierIndex(total)]
            prompt_tier == tiers[C23_TierIndex(prompt)]
            crossed == \E i \in DOMAIN tiers :
                          /\ tiers[i].up_to_tokens # None
                          /\ total <= tiers[i].up_to_tokens[1]
                          /\ tiers[i].up_to_tokens[1] < prompt
        IN /\ b.cache_write =
                 BigTimes(BigTimes(BigOf(total), kb_tier.cache_write_per_million),
                          kb.updates_per_month)
           /\ b.cache_storage =
                 BigTimes(BigTimes(BigOf(total), kb_tier.cache_storage_per_million_hour),
                          kb.cache_storage_hours_per_month)
           /\ b.cache_read = BigTimes(BigOf(total), kb_tier.cache_read_per_million)
           /\ b.query_input =
                 BigTimes(BigOf(params.query.query_tokens), prompt_tier.input_per_million)
           /\ b.output =
                 BigTimes(BigOf(params.query.output_tokens), prompt_tier.output_per_million)
           /\ crossed <=> C23_TierIndex(prompt) # C23_TierIndex(total)
           /\ crossed => C23_TierIndex(prompt) = C23_TierIndex(total) + 1

\* C23 witness: a with-cache result on 200,000 knowledge-base tokens and 50
\* query tokens under the default plan, whose bound of 200,000 lies between the
\* two lookups.
C23_Witness ==
    /\ Returned(WithCache)
    /\ params.pricing.plan_key = DEFAULT_PLAN_KEY
    /\ TotalTokens(params.knowledge_base) = 200000
    /\ params.query.query_tokens = 50
    /\ params.query.output_tokens = 1000
    /\ params.knowledge_base.updates_per_month = 1
    /\ Result(WithCache).cost_breakdown.cache_read = BigOf(200000 * 30)
    /\ Result(WithCache).cost_breakdown.query_input = BigOf(50 * 600)

\* C25: on one parameter set the With-Cache result is strictly faster than
\* the No-Cache result: its ttft is lower (every cached ttft is below every
\* uncached one), its decode throughput, taken at the reduced token count, is
\* not lower, and so avg_time_seconds(with cache) < avg_time_seconds(no cache).
C25_CacheStrictlyFaster ==
    (Returned(WithCache) /\ Returned(NoCache)) =>
        LET wc == Result(WithCache)
            nc == Result(NoCache)
        IN /\ wc.avg_time_seconds < nc.avg_time_seconds
           /\ wc.latency.ttft < nc.latency.ttft
           /\ wc.latency.decode <= nc.latency.decode
           /\ wc.latency.throughput >= nc.latency.throughput
           /\ \A a \in PromptProbes, b \in PromptProbes :
                 PrefillTime(a, TRUE) < PrefillTime(b, FALSE)

\* C25 witness: both results on 6670 knowledge-base tokens with nothing to
\* decode, where the reduced count (1000) is in a band with a higher base TTFT
\* (2.4 s) than the band of the full prompt (2.0 s).
C25_Witness ==
    /\ Returned(WithCache)
    /\ Returned(NoCache)
    /\ TotalTokens(params.knowledge_base) = 6670
    /\ params.query.query_tokens = 0
    /\ params.query.output_tokens = 0
    /\ Result(WithCache).avg_time_seconds = 750 * TicksPerMs
    /\ Result(NoCache).avg_time_seconds = 2150 * TicksPerMs

\* C27: with positive tokens_per_page, avg_docs_retrieved and
\* avg_pages_per_document, the prompts of a grep request, in attempt order,
\* are strictly increasing, so the final attempt has the largest prompt, and
\* the throughput the result reports is the lowest throughput of its attempts.
C27_GrepPromptsIncrease ==
    (/\ Returned(Grep)
     /\ params.knowledge_base.tokens_per_page > 0
     /\ params.grep.avg_docs_retrieved > 0
     /\ params.grep.avg_pages_per_document > 0) =>
        LET r == Result(Grep)
            prompts == GrepPromptTokens(params)
            n == Len(prompts)
        IN /\ r.additional_metrics.llm_calls = Str(n)
           /\ r.additional_metrics.tokens_per_call =
                 Join("|", [j \in 1..n |-> FormatThousands(prompts[j])])
           /\ \A j \in 1..(n - 1) : prompts[j] < prompts[j + 1]
           /\ \A j \in 1..n : prompts[j] <= prompts[n]
           /\ \A j \in 1..n : r.latency.throughput <= StreamingThroughput(prompts[j])
           /\ \E j \in 1..n : r.latency.throughput = StreamingThroughput(prompts[j])

\* C27 witness: a grep result of three tries with ten documents per call,
\* whose first attempt streams at 90 tokens per second and whose last, the
\* largest, at 62.
C27_Witness ==
    /\ Returned(Grep)
    /\ params.grep.avg_tries = 3
    /\ params.grep.avg_docs_retrieved = 10
    /\ StreamingThroughput(GrepPromptTokens(params)[1]) = 90
    /\ Result(Grep).latency.throughput = 62

============================================================================
